---- MODULE Spec2Model ----
(***************************************************************************)
(* Model of the agent orchestration of app.py: ResponderWithRetries, the    *)
(* draft / execute_tools / revise message graph with its event_loop, and    *)
(* HypothesisGenerator.generate_hypotheses (the outer iteration loop, the   *)
(* table st.session_state.hypothesisdf_all and the string notnovelhyp).     *)
(* The language model, the retriever and the guardrails are the             *)
(* environment: their answers are drawn from small sets.                    *)
(***************************************************************************)
EXTENDS Naturals, Sequences, FiniteSets, TLC

\* ------------------------------------------------------------------ bounds
\* agent_iterations ranges over 1..MaxAgentIterations (the slider gives 1..10)
MaxAgentIterations == 3
\* iterations ranges over 1..MaxIterations (the slider gives 1..10)
MaxIterations == 2
\* longest history the pure-function specification of event_loop draws
MaxHistory == 5
MaxQueries == 3

\* ------------------------------------------------------------ data: values
\* a key that is not in the arguments of a tool call, and a JSON null
Absent == "<absent>"
Null == "<null>"
AbsentList == <<Absent>>

\* short names the model endpoint may produce
Names == {"X", "Y"}

\* class Reflection: the seven declared fields
ReflectionFields ==
  {"missing", "superfluous", "notnovel", "shortname", "noveltyscore",
   "references_field", "flag"}

Reflection(shortname, noveltyscore) ==
  [missing |-> "m", superfluous |-> "s", notnovel |-> "nn",
   shortname |-> shortname, noveltyscore |-> noveltyscore,
   references_field |-> "r", flag |-> "f"]

\* a tool call whose arguments carry no reflection (every sub-key is missing)
NoReflection == [f \in ReflectionFields |-> Absent]

\* class AnswerQuestion / ReviseAnswer: the arguments of one tool call
Args(answer, reflection, search_queries, references) ==
  [answer |-> answer, reflection |-> reflection,
   search_queries |-> search_queries, references |-> references]

GoodArgs(n) == Args("text", Reflection(n, "7"), <<"q1">>, <<"ref">>)
NoRefsArgs == Args("text", Reflection("X", "7"), <<"q1", "q2">>, AbsentList)
NullScoreArgs == Args("text", Reflection("Y", Null), <<"q1">>, <<"ref">>)
NoReflArgs == Args("text", NoReflection, <<"q1">>, <<"ref">>)

\* ---------------------------------------------------------- data: messages
ToolCall(name, args, id) == [name |-> name, args |-> args, id |-> id]

AIMessage(tool_calls) ==
  [type |-> "ai", content |-> <<>>, tool_calls |-> tool_calls,
   tool_call_id |-> "none"]

HumanMessage(content) ==
  [type |-> "human", content |-> content, tool_calls |-> <<>>,
   tool_call_id |-> "none"]

ToolMessage(content, tool_call_id) ==
  [type |-> "tool", content |-> content, tool_calls |-> <<>>,
   tool_call_id |-> tool_call_id]

\* what the model endpoint, bound to one tool, may answer: free text without
\* a tool call, one call of the bound tool, or two calls of it
Responses(tool) ==
  {AIMessage(<<>>)}
  \cup {AIMessage(<<ToolCall(tool, GoodArgs(n), "good" \o n)>>) : n \in Names}
  \cup {AIMessage(<<ToolCall(tool, NoRefsArgs, "norefs")>>),
        AIMessage(<<ToolCall(tool, NullScoreArgs, "nullscore")>>),
        AIMessage(<<ToolCall(tool, NoReflArgs, "norefl")>>),
        AIMessage(<<ToolCall(tool, GoodArgs("X"), "two1"),
                    ToolCall(tool, GoodArgs("X"), "two2")>>)}

NoMessage == [type |-> "none", content |-> <<>>, tool_calls |-> <<>>,
              tool_call_id |-> "none"]

\* ------------------------------------------------------- schema validation
\* a required str field binds when the key is there and its value is a string
StrOk(v) == v \notin {Absent, Null}

\* a required list[str] field binds when the key is there
ListOk(v) == v # AbsentList

\* class Reflection: all seven fields are required
ReflectionOk(reflection) == \A f \in ReflectionFields : StrOk(reflection[f])

\* class AnswerQuestion: answer, reflection, search_queries are required
AnswerQuestionOk(args) ==
  /\ StrOk(args.answer)
  /\ ReflectionOk(args.reflection)
  /\ ListOk(args.search_queries)

\* a ReviseAnswer that declares no field of its own
ReviseAnswerOk_inherited(args) == AnswerQuestionOk(args)

\* class ReviseAnswer(AnswerQuestion): references is required as well
ReviseAnswerOk(args) == AnswerQuestionOk(args) /\ ListOk(args.references)

SchemaOk(schema, args) ==
  IF schema = "ReviseAnswer" THEN ReviseAnswerOk(args) ELSE AnswerQuestionOk(args)

\* self.validator.invoke(response): TRUE when no ValidationError is raised.
\* The tools parser binds every tool call of the response to the schema; a
\* response without tool calls has nothing to bind and raises nothing.
validator_invoke(schema, response) ==
  \A i \in 1..Len(response.tool_calls) : SchemaOk(schema, response.tool_calls[i].args)

\* ----------------------------------------------------- ResponderWithRetries
\* for attempt in range(3)
MaxAttempts == 3

\* the ToolMessage of the except branch
Corrective(schema, response) ==
  ToolMessage(<<"ValidationError", schema>>, response.tool_calls[1].id)

\* a retry list that gets the corrective message without the failing response
RetryState_correctiveOnly(st, schema, response) ==
  Append(st, Corrective(schema, response))

\* state = state + [response, ToolMessage(...)]
RetryState(st, schema, response) == st \o <<response, Corrective(schema, response)>>

\* a responder that returns the response of its first invocation
respond_result_first(inv) == inv[1]

\* a respond that extends the list it was given in place
caller_history_extended(st, schema, response) ==
  st \o <<response, Corrective(schema, response)>>

\* the caller's list after state = state + [...]: the concatenation makes a
\* new list and binds the local name to it, the caller's list is as it was
caller_history(st, schema, response) == st

\* return response: the response of the latest invocation
respond_result(inv) == inv[Len(inv)]

\* a for loop over range(2)
HasNextAttemptTwo(att) == att + 1 < 2

\* whether the for loop runs another attempt after a ValidationError
HasNextAttempt(att) == att + 1 < MaxAttempts

\* ------------------------------------------------------------ message graph
END == "__end__"

\* a graph whose draft node is wired to revise
edge_skip(node) == "revise"

\* add_edge("draft", "execute_tools"); add_edge("execute_tools", "revise")
edge(node) == IF node = "draft" THEN "execute_tools" ELSE "revise"

\* MessageGraph appends what a node returns to the history
add_messages(st, msgs) == st \o msgs

\* self.retrieval_chain({"chat_history": "", "question": query})['answer']
retrieval_chain(query) == "answer:" \o query

\* a loop body that keeps one copy of each answer
run_queries_step_dedupe(res, query) ==
  IF \E i \in 1..Len(res) : res[i] = retrieval_chain(query)
  THEN res
  ELSE Append(res, retrieval_chain(query))

\* the body of the for loop of run_queries: results.append(response)
run_queries_step(res, query) == Append(res, retrieval_chain(query))

\* run_queries: one retriever answer per query, in list order
run_queries(search_queries) ==
  [i \in 1..Len(search_queries) |-> retrieval_chain(search_queries[i])]

\* self.tool_node: one tool message per tool call of the last message
tool_node(st) ==
  LET calls == st[Len(st)].tool_calls
  IN [i \in 1..Len(calls) |->
        ToolMessage(run_queries(calls[i].args.search_queries), calls[i].id)]

\* for i, step in enumerate(events): st.write(step[-1]), for one value of
\* the stream: the last message of the history is shown
st_write(out, step) == Append(out, step[Len(step)])

\* _get_num_iterations: the length of the trailing run of ai / tool messages
RECURSIVE _get_num_iterations(_)
_get_num_iterations(st) ==
  IF st = <<>> THEN 0
  ELSE IF st[Len(st)].type \notin {"tool", "ai"} THEN 0
  ELSE 1 + _get_num_iterations(SubSeq(st, 1, Len(st) - 1))

\* an event_loop that counts the revisions of the history
event_loop_revisions(st, agent_its) ==
  IF Cardinality({i \in 1..Len(st) : st[i].type = "ai"}) - 1 >= agent_its
  THEN END ELSE "execute_tools"

\* an event_loop that ends when the count reaches the threshold
event_loop_geq(st, agent_its) ==
  IF _get_num_iterations(st) >= agent_its THEN END ELSE "execute_tools"

\* an event_loop that ends one message late
event_loop_late(st, agent_its) ==
  IF _get_num_iterations(st) > agent_its + 1 THEN END ELSE "execute_tools"

\* event_loop: the conditional edge after revise
event_loop(st, agent_its) ==
  IF _get_num_iterations(st) > agent_its THEN END ELSE "execute_tools"

\* -------------------------------------------------------- outer loop: data
Prompt == "Come up with new hypotheses in the context."
SeedPrefix == "Come up with new hypotheses in the context. ALWAYS ... : "

\* the seed of a cycle: the f-string with notnovelhyp embedded
Seed(known) == HumanMessage(<<SeedPrefix \o known>>)

\* an accumulator that puts the newest short name first
accumulate_prepend(known, shortname) == shortname \o known

\* an accumulator that keeps the newest short name only
accumulate_overwrite(known, shortname) == shortname

\* notnovelhyp = notnovelhyp + shortname
accumulate(known, shortname) == known \o shortname

\* verdicts chain_with_guardrails.invoke may return
Verdicts == {"clean", "restricted"}

\* prompt: the generic system text, and the user text "{input}"
prompt ==
  [system |-> "You are world class technical documentation writer.",
   user |-> ""]

\* prompt_short: the instruction with the short name, and the user text
\* "The list of publications: {input}"
prompt_short(shortname) ==
  [system |-> "You are world class technical documentation writer. Given a list of publications, decide how the following hypothesis relates to it: " \o shortname,
   user |-> "The list of publications: "]

\* a prompt template filled with its input
format_prompt(template, input) ==
  [system |-> template.system, user |-> template.user \o input]

\* chain_short = prompt | self.llm_short | output_parser: the messages the
\* short chain sends for chain_short.invoke(listofpapers)
chain_short_input(listofpapers, shortname) == format_prompt(prompt, listofpapers)

\* the text the short chain answers
chain_short_invoke(input) == "relation:" \o input.system \o "|" \o input.user

\* str(self.db.similarity_search(shortname_hyp))
similarity_search(shortname) == "papers:" \o shortname

Columns ==
  <<"Hypotheses short description", "Generated Hypotheses", "Novelty",
    "What is not novel", "Missing", "Superfluous", "Flag", "References",
    "Biohazard", "Relations to literature">>

\* a reader that takes the arguments of the draft when the draft has a tool
\* call
FinalArgs_draft(st) ==
  IF Len(st) >= 2 /\ st[2].tool_calls # <<>>
  THEN st[2].tool_calls[1].args
  ELSE st[Len(st)].tool_calls[1].args

\* step[-1].tool_calls[0]["args"]
FinalArgs(st) == st[Len(st)].tool_calls[1].args

\* whether step[-1].tool_calls[0]["args"]["reflection"]['shortname'] evaluates
CanExtractShortname(st) ==
  /\ Len(st[Len(st)].tool_calls) >= 1
  /\ FinalArgs(st).reflection.shortname # Absent

\* whether every key the DataFrame literal reads is there
CanExtractFields(st) ==
  /\ FinalArgs(st).answer # Absent
  /\ \A f \in ReflectionFields : FinalArgs(st).reflection[f] # Absent

\* the one-row DataFrame: the columns in the order of the dict literal
hypothesisdf_row(st, biohazard, relation) ==
  LET a == FinalArgs(st)
  IN << <<Columns[1], a.reflection.shortname>>,
        <<Columns[2], a.answer>>,
        <<Columns[3], a.reflection.noveltyscore>>,
        <<Columns[4], a.reflection.notnovel>>,
        <<Columns[5], a.reflection.missing>>,
        <<Columns[6], a.reflection.superfluous>>,
        <<Columns[7], a.reflection.flag>>,
        <<Columns[8], a.reflection.references_field>>,
        <<Columns[9], biohazard>>,
        <<Columns[10], relation>> >>

\* -------------------------------------------------------------------- state
VARIABLES
  agent_iterations,  \* self.agent_iterations
  iterations,        \* self.iterations
  pc,                \* where generate_hypotheses is
  hypothesis_cycle,  \* the counter of the outer for loop
  state,             \* the history of the running graph (step, once it ended)
  attempt,           \* respond: the loop variable
  rstate,            \* respond: its local variable state
  invoked,           \* respond: the responses of this call's invocations,
                     \*   kept until the caller's next step
  returned,          \* respond: the message it returned, kept likewise
  responder,         \* the responder whose respond ran last
  initial,           \* the result of the call before the loop; nothing
                     \*   reads it, its value is dropped when the loop starts
  table,             \* st.session_state.hypothesisdf_all
  notnovelhyp,       \* the accumulated short names
  shortname_hyp,     \* shortname_hyp
  listofpapers,      \* listofpapers
  biohazard,         \* the value of the Biohazard column being built
  relation_input,    \* the messages sent by chain_short.invoke
  search_queries,    \* run_queries: its argument
  results,           \* run_queries: its local list results
  retrieved,         \* run_queries: the questions put to the retriever
  written,           \* what st.write has shown of the running stream
  error              \* the exception that ended the run, if any

vars ==
  <<agent_iterations, iterations, pc, hypothesis_cycle, state, attempt, rstate,
    invoked, returned, responder, initial, table, notnovelhyp, shortname_hyp,
    listofpapers, biohazard, relation_input, search_queries, results,
    retrieved, written, error>>

config == <<agent_iterations, iterations>>
respondVars == <<attempt, rstate, invoked, returned, responder>>
rowVars == <<shortname_hyp, listofpapers, biohazard, relation_input>>
toolVars == <<search_queries, results, retrieved>>

\* no messages sent yet
NoInput == [system |-> "", user |-> ""]

\* a table a previous run left in the session
PrevRow == hypothesisdf_row(<<AIMessage(<<ToolCall("ReviseAnswer", GoodArgs("X"), "prev")>>)>>,
                            "clean", "relation:prev")

\* the schema a responder validates against
Schema(r) == IF r = "revisor" THEN "ReviseAnswer" ELSE "AnswerQuestion"

Init ==
  /\ agent_iterations \in 1..MaxAgentIterations
  /\ iterations \in 1..MaxIterations
  /\ pc = "initial"
  /\ hypothesis_cycle = 0
  /\ state = <<>>
  /\ attempt = 0
  /\ rstate = <<HumanMessage(<<Prompt>>)>>
  /\ invoked = <<>>
  /\ returned = NoMessage
  /\ responder = "first_responder"
  /\ initial = NoMessage
  /\ table \in {<<>>, <<PrevRow>>}
  /\ notnovelhyp = ""
  /\ shortname_hyp = ""
  /\ listofpapers = ""
  /\ biohazard = ""
  /\ relation_input = NoInput
  /\ search_queries = <<>>
  /\ results = <<>>
  /\ retrieved = <<>>
  /\ written = <<>>
  /\ error = "none"

\* ------------------------------------------------------------------ respond
\* entering respond(st) of responder r
EnterRespond(r, st) ==
  /\ attempt' = 0
  /\ rstate' = st
  /\ invoked' = <<>>
  /\ returned' = NoMessage
  /\ responder' = r

\* one pass of the for loop that does not leave respond: the response fails
\* validation and another attempt follows
RespondRetry ==
  /\ pc \in {"initial", "draft", "revise"}
  /\ \E response \in Responses(Schema(responder)) :
       /\ ~validator_invoke(Schema(responder), response)
       /\ HasNextAttempt(attempt)
       /\ invoked' = Append(invoked, response)
       /\ rstate' = RetryState(rstate, Schema(responder), response)
       /\ attempt' = attempt + 1
       /\ state' = caller_history(state, Schema(responder), response)
  /\ UNCHANGED <<written, toolVars, config, pc, hypothesis_cycle, returned, responder,
                 initial, table, notnovelhyp, rowVars, error>>

\* the pass of the for loop that leaves respond: the response validates, or
\* it fails validation on the last attempt; respond returns it either way
Returns(response) ==
  \/ validator_invoke(Schema(responder), response)
  \/ ~HasNextAttempt(attempt)

\* respond's locals attempt and state end with the call
LocalsEnd ==
  /\ attempt' = 0
  /\ rstate' = <<>>

\* initial = self.first_responder.respond([...]) returns; the table and the
\* accumulator are reset
InitialReturns ==
  /\ pc = "initial"
  /\ \E response \in Responses(Schema(responder)) :
       /\ Returns(response)
       /\ invoked' = Append(invoked, response)
       /\ returned' = respond_result(invoked')
       /\ LocalsEnd
       /\ initial' = returned'
  /\ table' = <<>>
  /\ notnovelhyp' = ""
  /\ hypothesis_cycle' = 0
  /\ pc' = "loop"
  /\ UNCHANGED <<written, toolVars, config, state, responder, rowVars, error>>

\* the draft node returns: its message joins the history, then execute_tools
DraftReturns ==
  /\ pc = "draft"
  /\ \E response \in Responses(Schema(responder)) :
       /\ Returns(response)
       /\ invoked' = Append(invoked, response)
       /\ returned' = respond_result(invoked')
       /\ LocalsEnd
       /\ state' = add_messages(state, <<returned'>>)
  /\ written' = st_write(written, state')
  /\ pc' = edge("draft")
  /\ UNCHANGED <<toolVars, config, hypothesis_cycle, responder, initial, table,
                 notnovelhyp, rowVars, error>>

\* the revise node returns: its message joins the history, then event_loop
ReviseReturns ==
  /\ pc = "revise"
  /\ \E response \in Responses(Schema(responder)) :
       /\ Returns(response)
       /\ invoked' = Append(invoked, response)
       /\ returned' = respond_result(invoked')
       /\ LocalsEnd
       /\ state' = add_messages(state, <<returned'>>)
  /\ written' = st_write(written, state')
  /\ pc' = IF event_loop(state', agent_iterations) = END
           THEN "extract" ELSE "execute_tools"
  /\ UNCHANGED <<toolVars, config, hypothesis_cycle, responder, initial, table,
                 notnovelhyp, rowVars, error>>

\* a respond that catches an endpoint error and tries again while attempts
\* are left
EndpointFaultRetried ==
  /\ pc \in {"initial", "draft", "revise"}
  /\ IF HasNextAttempt(attempt)
     THEN /\ attempt' = attempt + 1
          /\ UNCHANGED <<pc, error>>
     ELSE /\ error' = "EndpointError"
          /\ pc' = "aborted"
          /\ UNCHANGED attempt
  /\ UNCHANGED <<written, toolVars, config, hypothesis_cycle, state, rstate, invoked,
                 returned, responder, initial, table, notnovelhyp, rowVars>>

\* self.runnable.invoke raises: the error leaves respond and the run
EndpointFault ==
  /\ pc \in {"initial", "draft", "revise"}
  /\ error' = "EndpointError"
  /\ pc' = "aborted"
  /\ UNCHANGED <<written, toolVars, config, hypothesis_cycle, state, respondVars, initial, table,
                 notnovelhyp, rowVars>>

\* --------------------------------------------------------------- the graph
\* a loop that starts the graph with the pre-loop draft after the seed
StartCycleWithInitial ==
  /\ pc = "loop"
  /\ IF hypothesis_cycle < iterations
     THEN /\ state' = IF initial = NoMessage
                      THEN <<Seed(notnovelhyp)>>
                      ELSE <<Seed(notnovelhyp), initial>>
          /\ written' = st_write(<<>>, state')
          /\ EnterRespond("first_responder", state')
          /\ pc' = "draft"
     ELSE /\ pc' = "done"
          /\ UNCHANGED <<state, respondVars, written>>
  /\ initial' = NoMessage
  /\ UNCHANGED <<toolVars, config, hypothesis_cycle, table, notnovelhyp, rowVars, error>>

\* for hypothesis_cycle in range(self.iterations): the next cycle starts at
\* draft with its seed, or the loop is over and the table is returned
StartCycle ==
  /\ pc = "loop"
  /\ IF hypothesis_cycle < iterations
     THEN /\ state' = <<Seed(notnovelhyp)>>
          /\ written' = st_write(<<>>, state')
          /\ EnterRespond("first_responder", state')
          /\ pc' = "draft"
     ELSE /\ pc' = "done"
          /\ UNCHANGED <<state, respondVars, written>>
  /\ initial' = NoMessage
  /\ UNCHANGED <<toolVars, config, hypothesis_cycle, table, notnovelhyp, rowVars, error>>

\* the execute_tools node: the tool messages join the history, then revise
ExecuteTools ==
  /\ pc = "execute_tools"
  /\ state' = add_messages(state, tool_node(state))
  /\ written' = st_write(written, state')
  /\ EnterRespond("revisor", state')
  /\ pc' = edge("execute_tools")
  /\ UNCHANGED <<toolVars, config, hypothesis_cycle, initial, table, notnovelhyp,
                 rowVars, error>>

\* a retriever call of run_queries raises: the error leaves the graph
RetrieverFault ==
  /\ pc = "execute_tools"
  /\ \E i \in 1..Len(state[Len(state)].tool_calls) :
       state[Len(state)].tool_calls[i].args.search_queries # <<>>
  /\ error' = "RetrieverError"
  /\ pc' = "aborted"
  /\ invoked' = <<>>
  /\ returned' = NoMessage
  /\ UNCHANGED <<written, toolVars, config, hypothesis_cycle, state, attempt, rstate, responder,
                 initial, table, notnovelhyp, rowVars>>

\* ------------------------------------------------------ after the graph ended
\* shortname_hyp = step[-1].tool_calls[0]["args"]["reflection"]['shortname']
ExtractShortname ==
  /\ pc = "extract"
  /\ IF CanExtractShortname(state)
     THEN /\ shortname_hyp' = FinalArgs(state).reflection.shortname
          /\ pc' = "search"
          /\ UNCHANGED error
     ELSE /\ error' = "LookupError"
          /\ pc' = "aborted"
          /\ UNCHANGED shortname_hyp
  /\ invoked' = <<>>
  /\ returned' = NoMessage
  /\ UNCHANGED <<written, toolVars, config, hypothesis_cycle, state, attempt, rstate, responder,
                 initial, table, notnovelhyp, listofpapers, biohazard,
                 relation_input>>

\* listofpapers = str(self.db.similarity_search(shortname_hyp))
SimilaritySearch ==
  /\ pc = "search"
  /\ listofpapers' = similarity_search(shortname_hyp)
  /\ pc' = "policy"
  /\ UNCHANGED <<written, toolVars, config, hypothesis_cycle, state, respondVars, initial, table,
                 notnovelhyp, shortname_hyp, biohazard, relation_input, error>>

SearchFault ==
  /\ pc = "search"
  /\ error' = "RetrieverError"
  /\ pc' = "aborted"
  /\ UNCHANGED <<written, toolVars, config, hypothesis_cycle, state, respondVars, initial, table,
                 notnovelhyp, rowVars>>

\* the dict literal up to "Biohazard": the eight fields are read, then
\* chain_with_guardrails.invoke answers
PolicyCheck ==
  /\ pc = "policy"
  /\ IF CanExtractFields(state)
     THEN /\ \E verdict \in Verdicts : biohazard' = verdict
          /\ pc' = "relation"
          /\ UNCHANGED error
     ELSE /\ error' = "LookupError"
          /\ pc' = "aborted"
          /\ UNCHANGED biohazard
  /\ UNCHANGED <<written, toolVars, config, hypothesis_cycle, state, respondVars, initial,
                 table, notnovelhyp, shortname_hyp, listofpapers,
                 relation_input>>

PolicyFault ==
  /\ pc = "policy"
  /\ CanExtractFields(state)
  /\ error' = "PolicyError"
  /\ pc' = "aborted"
  /\ UNCHANGED <<written, toolVars, config, hypothesis_cycle, state, respondVars, initial, table,
                 notnovelhyp, rowVars>>

\* an append that holds back a hypothesis the checker flagged
AppendRowGated ==
  /\ pc = "relation"
  /\ biohazard # "restricted"
  /\ relation_input' = chain_short_input(listofpapers, shortname_hyp)
  /\ table' = Append(table,
       hypothesisdf_row(state, biohazard, chain_short_invoke(relation_input')))
  /\ pc' = "accumulate"
  /\ UNCHANGED <<written, toolVars, config, hypothesis_cycle, state, respondVars, initial,
                 notnovelhyp, shortname_hyp, listofpapers, biohazard, error>>

\* "Relations to literature": chain_short.invoke(listofpapers) answers; the
\* row is complete and pd.concat appends it to the table
AppendRow ==
  /\ pc = "relation"
  /\ relation_input' = chain_short_input(listofpapers, shortname_hyp)
  /\ table' = Append(table,
       hypothesisdf_row(state, biohazard, chain_short_invoke(relation_input')))
  /\ pc' = "accumulate"
  /\ UNCHANGED <<written, toolVars, config, hypothesis_cycle, state, respondVars, initial,
                 notnovelhyp, shortname_hyp, listofpapers, biohazard, error>>

\* notnovelhyp = notnovelhyp + shortname; the for loop advances
Accumulate ==
  /\ pc = "accumulate"
  /\ notnovelhyp' = accumulate(notnovelhyp, FinalArgs(state).reflection.shortname)
  /\ hypothesis_cycle' = hypothesis_cycle + 1
  /\ pc' = "loop"
  /\ UNCHANGED <<written, toolVars, config, state, respondVars, initial, table, rowVars,
                 error>>

RelationFault ==
  /\ pc = "relation"
  /\ error' = "EndpointError"
  /\ pc' = "aborted"
  /\ UNCHANGED <<written, toolVars, config, hypothesis_cycle, state, respondVars, initial, table,
                 notnovelhyp, rowVars>>

Next ==
  \/ RespondRetry
  \/ InitialReturns
  \/ DraftReturns
  \/ ReviseReturns
  \/ EndpointFault
  \/ StartCycle
  \/ ExecuteTools
  \/ RetrieverFault
  \/ ExtractShortname
  \/ SimilaritySearch
  \/ SearchFault
  \/ PolicyCheck
  \/ PolicyFault
  \/ AppendRow
  \/ Accumulate
  \/ RelationFault

Spec == Init /\ [][Next]_vars

\* ------------------------------------------- event_loop as a pure function
\* histories of up to MaxHistory messages, by role
Roles == {HumanMessage(<<>>), AIMessage(<<>>), ToolMessage(<<>>, "none")}
Histories == UNION {[1..n -> Roles] : n \in 0..MaxHistory}

InitLoop ==
  /\ agent_iterations \in 1..MaxAgentIterations
  /\ iterations = 1
  /\ pc = "revise_done"
  /\ hypothesis_cycle = 0
  /\ state \in Histories
  /\ attempt = 0
  /\ rstate = <<>>
  /\ invoked = <<>>
  /\ returned = NoMessage
  /\ responder = "revisor"
  /\ initial = NoMessage
  /\ table = <<>>
  /\ notnovelhyp = ""
  /\ shortname_hyp = ""
  /\ listofpapers = ""
  /\ biohazard = ""
  /\ relation_input = NoInput
  /\ search_queries = <<>>
  /\ results = <<>>
  /\ retrieved = <<>>
  /\ written = <<>>
  /\ error = "none"

\* the conditional edge is evaluated on the history
Route ==
  /\ pc = "revise_done"
  /\ pc' = event_loop(state, agent_iterations)
  /\ UNCHANGED <<written, toolVars, config, hypothesis_cycle, state, respondVars, initial, table,
                 notnovelhyp, rowVars, error>>

NextLoop == Route

SpecLoop == InitLoop /\ [][NextLoop]_vars

\* ---------------------------------------------------------------- claims
\* the responder's schema rejects response
Fails(response) == ~validator_invoke(Schema(responder), response)

\* respond has just returned to its caller
Returned == returned # NoMessage

\* C1: when every response of a respond call fails validation, the call makes
\* exactly 3 invocations, raises nothing and returns the 3rd response; a call
\* never makes more than 3 invocations.
C1_BoundedRetry ==
  /\ Len(invoked) <= 3
  /\ (Returned /\ \A i \in 1..Len(invoked) : Fails(invoked[i]))
       => /\ Len(invoked) = 3
          /\ returned = invoked[3]
          /\ error = "none"
          /\ pc # "aborted"

C1_Witness ==
  /\ Returned
  /\ Len(invoked) = 3
  /\ \A i \in 1..3 : Fails(invoked[i])
  /\ invoked[1] # invoked[3]

\* C2: the first response that validates ends the call: if it is the k-th,
\* the call made exactly k invocations and returned that response; no
\* invocation follows a valid response.
C2_EarlySuccess ==
  \A k \in 1..Len(invoked) :
    ~Fails(invoked[k]) => /\ k = Len(invoked)
                          /\ Returned
                          /\ returned = invoked[k]

C2_Witness ==
  /\ Returned
  /\ Len(invoked) = 2
  /\ Fails(invoked[1])
  /\ ~Fails(invoked[2])
  /\ returned # invoked[1]

\* the trailing run of ai / tool messages, defined without recursion
TrailingRun(st) ==
  CHOOSE k \in 0..Len(st) :
    /\ \A i \in (Len(st) - k + 1)..Len(st) : st[i].type \in {"ai", "tool"}
    /\ k < Len(st) => st[Len(st) - k].type \notin {"ai", "tool"}

\* C3: event_loop answers END exactly when the trailing run of ai / tool
\* messages is longer than agent_iterations, and execute_tools otherwise.
C3_TerminationRule ==
  pc # "revise_done" =>
    /\ pc \in {END, "execute_tools"}
    /\ pc = END <=> TrailingRun(state) > agent_iterations

\* a run of exactly agent_iterations messages after a human message continues
C3_Witness ==
  /\ pc = "execute_tools"
  /\ TrailingRun(state) = agent_iterations
  /\ Len(state) > agent_iterations

\* the ai messages of a history: the draft and every completed revise
NumAI(st) == Cardinality({i \in 1..Len(st) : st[i].type = "ai"})

\* C4: a cycle visits draft, then execute_tools and revise in turn, then ends:
\* draft is left for execute_tools and execute_tools for revise (unless the
\* node's call raised), whatever the validation of the response; revise is
\* entered only from execute_tools, draft only at the start of a cycle, and
\* the graph ends only from revise, after at least one revise.
C4_StepOrder ==
  /\ (pc = "draft" /\ pc' # "draft") => (pc' = "execute_tools" \/ error' # "none")
  /\ (pc = "execute_tools" /\ pc' # "execute_tools")
       => (pc' = "revise" \/ error' # "none")
  /\ (pc = "revise" /\ pc' # "revise")
       => (pc' \in {"execute_tools", "extract"} \/ error' # "none")
  /\ (pc' = "revise" /\ pc # "revise") => pc = "execute_tools"
  /\ (pc' = "draft" /\ pc # "draft") => pc = "loop"
  /\ (pc' = "execute_tools" /\ pc # "execute_tools") => pc \in {"draft", "revise"}
  /\ (pc' = "extract" /\ pc # "extract") => pc = "revise"

C4_CycleOrdering ==
  /\ [][C4_StepOrder]_vars
  /\ [](pc = "extract" => NumAI(state) >= 2)

\* a draft that gave up on validation is still followed by execute_tools
C4_Witness ==
  /\ pc = "execute_tools"
  /\ Returned
  /\ responder = "first_responder"
  /\ Fails(returned)

\* the execute_tools -> revise round trips of the running cycle, the one under
\* way or already decided included
RoundTrips ==
  IF pc \in {"execute_tools", "revise"} THEN NumAI(state) ELSE NumAI(state) - 1

\* C5: in a cycle started from a single human seed, the number of
\* execute_tools -> revise round trips never exceeds agent_iterations.
C5_RoundTripBound ==
  (pc \in {"execute_tools", "revise", "extract"}) =>
    /\ state[1].type = "human"
    /\ RoundTrips <= agent_iterations

\* the bound is reached: a cycle that ended after agent_iterations round trips
C5_Witness ==
  /\ pc = "extract"
  /\ agent_iterations >= 2
  /\ RoundTrips = agent_iterations

\* errors of the model endpoint, the retriever and the policy checker
CallErrors == {"EndpointError", "RetrieverError", "PolicyError"}

\* the run is over: the table was returned, or an exception left the function
Ended == pc \in {"done", "aborted"}

\* the last message of the history carries a structured tool call
Structured == state # <<>> /\ state[Len(state)].tool_calls # <<>>

\* C6: when every model, retriever and checker call returned, a run that is
\* over has run all its cycles: it ended at the return statement after
\* exactly iterations cycles. (Stated for the runs whose last message is a
\* tool call; the claim covers the other runs as well.)
C6_RunsAllCycles ==
  (Ended /\ error \notin CallErrors /\ Structured) =>
    /\ pc = "done"
    /\ hypothesis_cycle = iterations

\* the short names column of a table, concatenated in row order
RECURSIVE ShortNames(_)
ShortNames(tbl) ==
  IF tbl = <<>> THEN ""
  ELSE ShortNames(SubSeq(tbl, 1, Len(tbl) - 1)) \o tbl[Len(tbl)][1][2]

\* C7: the seed of every cycle is the prompt followed by the short names of
\* the rows of the earlier iterations, in generation order and nothing else
\* (the empty string in the first iteration); between iterations notnovelhyp
\* is that concatenation.
C7_KnownConceptPropagation ==
  /\ pc \in {"draft", "execute_tools", "revise", "extract", "search",
             "policy", "relation"}
       => /\ Len(table) = hypothesis_cycle
          /\ state[1] = Seed(ShortNames(table))
          /\ notnovelhyp = ShortNames(table)
  /\ pc \in {"loop", "done"}
       => /\ Len(table) = hypothesis_cycle
          /\ notnovelhyp = ShortNames(table)

\* the second iteration runs with the first short name in its seed
C7_Witness ==
  /\ pc = "revise"
  /\ hypothesis_cycle = 1
  /\ state[1] = Seed(table[1][1][2])
  /\ table[1][1][2] \in Names

\* C8: a run whose calls all succeeded ends with exactly iterations rows; a
\* run that a failing call ended during an outer iteration holds the rows of
\* the iterations before it and nothing else. (Stated for the runs whose
\* last message is a tool call; the claim covers the other runs as well.)
C8_TableAppendOnly ==
  (Ended /\ Structured) =>
    /\ Len(table) = hypothesis_cycle
    /\ error \notin CallErrors => Len(table) = iterations

\* C9: a row is in the table only if the last message of its cycle validated
\* against ReviseAnswer: after an append, the history of the cycle that
\* produced the newest row ends with a message the revision validator accepts.
C9_RowsFromValidMessages ==
  (pc \in {"loop", "done"} /\ Len(table) >= 1) =>
    /\ state[Len(state)].tool_calls # <<>>
    /\ validator_invoke("ReviseAnswer", state[Len(state)])

\* C10: the table has one row per completed outer iteration, and every row
\* has the ten declared columns, in the declared order, none of them null.
C10_RowCompleteness ==
  pc # "initial" =>
    /\ pc \notin {"aborted", "accumulate"} => Len(table) = hypothesis_cycle
    /\ \A r \in 1..Len(table) :
         /\ Len(table[r]) = 10
         /\ \A c \in 1..10 :
              /\ table[r][c][1] = Columns[c]
              /\ table[r][c][2] \notin {Null, Absent}

\* C11: the verdict of the policy checker gates nothing: whatever it is, the
\* row can be appended and is appended with the verdict as it was returned in
\* the Biohazard column, the short name is then added to notnovelhyp and the
\* loop goes on to the next iteration.
C11_StepAfterVerdict ==
  /\ (pc = "relation" /\ pc' = "accumulate")
       => /\ Len(table') = Len(table) + 1
          /\ table'[Len(table')][9] = <<"Biohazard", biohazard>>
          /\ SubSeq(table', 1, Len(table)) = table
  /\ (pc = "accumulate" /\ pc' # "accumulate")
       => /\ pc' = "loop"
          /\ notnovelhyp' = notnovelhyp \o table[Len(table)][1][2]
          /\ hypothesis_cycle' = hypothesis_cycle + 1
          /\ error' = "none"

C11_VerdictAdvisory ==
  /\ [][C11_StepAfterVerdict]_vars
  /\ [](pc = "relation" => (biohazard \in Verdicts /\ ENABLED AppendRow))
  /\ [](pc = "accumulate" => ENABLED Accumulate)
  /\ []((pc = "loop" /\ hypothesis_cycle < iterations) => ENABLED StartCycle)

\* after a verdict of restricted the row is there and the next cycle runs
C11_Witness ==
  /\ pc = "draft"
  /\ hypothesis_cycle = 1
  /\ table[1][9][2] = "restricted"
  /\ notnovelhyp = table[1][1][2]

\* C12: the retriever is asked with the short name of the iteration, and the
\* model call whose answer fills the literature-relation column is sent the
\* retrieved passages together with the instruction that names the
\* hypothesis: the messages built from prompt_short.
C12_RelationCallInput ==
  (pc \in {"accumulate", "loop", "done"} /\ Len(table) >= 1) =>
    /\ shortname_hyp = table[Len(table)][1][2]
    /\ listofpapers = similarity_search(shortname_hyp)
    /\ relation_input = format_prompt(prompt_short(shortname_hyp), listofpapers)

\* ------------------------------------- validation as a pure function
\* the values a model may put in the arguments of a tool call: each key
\* missing, null, empty or filled
AnswerValues == {Absent, Null, "", "text"}
ReflectionValues ==
  {NoReflection, Reflection("X", Null), Reflection("X", ""), Reflection("X", "7")}
ListValues(item) == {AbsentList, <<>>, <<item>>}

Candidates(tool) ==
  {AIMessage(<<>>)}
  \cup {AIMessage(<<ToolCall(tool, Args(a, r, q, c), "cand")>>) :
          a \in AnswerValues, r \in ReflectionValues,
          q \in ListValues("q1"), c \in ListValues("ref")}

InitValidate ==
  /\ agent_iterations = 1
  /\ iterations = 1
  /\ pc = "validate"
  /\ hypothesis_cycle = 0
  /\ state = <<HumanMessage(<<Prompt>>)>>
  /\ attempt = 0
  /\ rstate = state
  /\ invoked = <<>>
  /\ returned = NoMessage
  /\ responder \in {"first_responder", "revisor"}
  /\ initial = NoMessage
  /\ table = <<>>
  /\ notnovelhyp = ""
  /\ shortname_hyp = ""
  /\ listofpapers = ""
  /\ biohazard = ""
  /\ relation_input = NoInput
  /\ search_queries = <<>>
  /\ results = <<>>
  /\ retrieved = <<>>
  /\ written = <<>>
  /\ error = "none"

\* the first pass of the for loop of respond on one candidate response: it is
\* returned when the validator raises nothing, otherwise a retry is prepared
FirstPass ==
  /\ pc = "validate"
  /\ \E response \in Candidates(Schema(responder)) :
       /\ invoked' = <<response>>
       /\ IF validator_invoke(Schema(responder), response)
          THEN /\ returned' = respond_result(invoked')
               /\ pc' = "accepted"
               /\ UNCHANGED <<attempt, rstate>>
          ELSE /\ rstate' = RetryState(rstate, Schema(responder), response)
               /\ attempt' = attempt + 1
               /\ pc' = "retry"
               /\ UNCHANGED returned
  /\ UNCHANGED <<written, toolVars, config, hypothesis_cycle, state, responder, initial,
                 table, notnovelhyp, rowVars, error>>

NextValidate == FirstPass

SpecValidate == InitValidate /\ [][NextValidate]_vars

\* the candidate was judged, and it carries a tool call
Judged == pc \in {"accepted", "retry"} /\ invoked[1].tool_calls # <<>>
JudgedArgs == invoked[1].tool_calls[1].args

\* a text or list value that is there and not empty
Filled(v) == v \notin {Absent, Null, ""}
FilledList(v) == v # AbsentList /\ v # <<>>

\* C13: validation succeeds exactly when every required field is present and
\* non-empty and search_queries is a non-empty list; an empty answer, an
\* empty reflection field or an empty search_queries list goes to a retry.
\* (Stated for the responses that carry a tool call.)
C13_ValidIffNonEmpty ==
  Judged =>
    (pc = "accepted" <=>
       /\ Filled(JudgedArgs.answer)
       /\ \A f \in ReflectionFields : Filled(JudgedArgs.reflection[f])
       /\ FilledList(JudgedArgs.search_queries)
       /\ responder = "revisor" => JudgedArgs.references # AbsentList)

\* every field AnswerQuestion declares is there with a value of its type
DraftFieldsBound(args) ==
  /\ args.answer \notin {Absent, Null}
  /\ \A f \in ReflectionFields : args.reflection[f] \notin {Absent, Null}
  /\ args.search_queries # AbsentList

\* C14: the first responder accepts a payload exactly when the fields of
\* AnswerQuestion bind, with or without references; the revisor accepts it
\* exactly when those fields bind and the references list is there too: a
\* payload with all draft fields and no references goes to a retry.
C14_SchemaDiscrimination ==
  Judged =>
    /\ responder = "first_responder"
         => (pc = "accepted" <=> DraftFieldsBound(JudgedArgs))
    /\ responder = "revisor"
         => (pc = "accepted" <=> /\ DraftFieldsBound(JudgedArgs)
                                 /\ JudgedArgs.references # AbsentList)

\* a complete draft payload without references is sent back by the revisor
C14_Witness ==
  /\ pc = "retry"
  /\ responder = "revisor"
  /\ invoked[1].tool_calls # <<>>
  /\ DraftFieldsBound(JudgedArgs)
  /\ JudgedArgs.references = AbsentList
  /\ Len(rstate) = 3
  /\ rstate[3].type = "tool"

\* ------------------------------------------ run_queries, one query at a time
Queries == {"q1", "q2", "q3"}

RECURSIVE QueryLists(_)
QueryLists(n) ==
  IF n = 0 THEN {<<>>}
  ELSE QueryLists(n - 1)
       \cup {Append(l, q) : l \in {m \in QueryLists(n - 1) : Len(m) = n - 1},
                            q \in Queries}

\* run_queries is entered with the search_queries of a tool call
InitQueries ==
  /\ agent_iterations = 1
  /\ iterations = 1
  /\ pc = "queries"
  /\ hypothesis_cycle = 0
  /\ state = <<HumanMessage(<<Prompt>>)>>
  /\ attempt = 0
  /\ rstate = <<>>
  /\ invoked = <<>>
  /\ returned = NoMessage
  /\ responder = "revisor"
  /\ initial = NoMessage
  /\ table = <<>>
  /\ notnovelhyp = ""
  /\ shortname_hyp = ""
  /\ listofpapers = ""
  /\ biohazard = ""
  /\ relation_input = NoInput
  /\ search_queries \in QueryLists(MaxQueries)
  /\ results = <<>>
  /\ retrieved = <<>>
  /\ written = <<>>
  /\ error = "none"

\* the query the for loop is at
next_query == search_queries[Len(retrieved) + 1]

\* one pass of the for loop: the retriever answers and the answer is appended
QueryStep ==
  /\ pc = "queries"
  /\ Len(retrieved) < Len(search_queries)
  /\ retrieved' = Append(retrieved, next_query)
  /\ results' = run_queries_step(results, next_query)
  /\ UNCHANGED <<written, search_queries, config, pc, hypothesis_cycle, state,
                 respondVars, initial, table, notnovelhyp, rowVars, error>>

\* the retriever raises on the query the loop is at: nothing catches it, the
\* frame of run_queries and its local list are gone
QueryFault ==
  /\ pc = "queries"
  /\ Len(retrieved) < Len(search_queries)
  /\ retrieved' = Append(retrieved, next_query)
  /\ results' = <<>>
  /\ error' = "RetrieverError"
  /\ pc' = "aborted"
  /\ UNCHANGED <<written, search_queries, config, hypothesis_cycle, state, respondVars,
                 initial, table, notnovelhyp, rowVars>>

\* the list is exhausted: return results
QueryReturn ==
  /\ pc = "queries"
  /\ Len(retrieved) = Len(search_queries)
  /\ pc' = "queries_done"
  /\ UNCHANGED <<written, toolVars, config, hypothesis_cycle, state, respondVars,
                 initial, table, notnovelhyp, rowVars, error>>

NextQueries == QueryStep \/ QueryFault \/ QueryReturn

SpecQueries == InitQueries /\ [][NextQueries]_vars

\* C15: the retriever is asked once per element of search_queries, in list
\* order, duplicates included and none skipped; the returned list has the
\* length of search_queries and its i-th element answers the i-th query; a
\* retriever error at the i-th query leaves the later queries unasked and no
\* list is returned.
C15_QueryOrder ==
  /\ retrieved = SubSeq(search_queries, 1, Len(retrieved))
  /\ pc = "queries" => Len(results) = Len(retrieved)
  /\ pc = "queries_done"
       => /\ retrieved = search_queries
          /\ Len(results) = Len(search_queries)
          /\ \A i \in 1..Len(search_queries) :
               results[i] = retrieval_chain(search_queries[i])
          /\ results = run_queries(search_queries)
          /\ error = "none"
  /\ pc = "aborted"
       => /\ Len(retrieved) >= 1
          /\ results = <<>>
          /\ ~ ENABLED NextQueries

\* a list with a repeated query was run to its end
C15_Witness ==
  /\ pc = "queries_done"
  /\ Len(search_queries) = 3
  /\ search_queries[1] = search_queries[3]
  /\ Len(results) = 3
  /\ results[1] = results[3]

\* respond is running for a node of the graph
InNode == pc \in {"draft", "revise"}

\* C16 as a step: a pass of respond that retries leaves the caller's history
\* as it was; the pass that returns hands over one message, which the graph
\* appends to the unchanged history, and respond's own list is gone; the
\* pre-loop call leaves the history alone as well.
C16_Step ==
  /\ (InNode /\ pc' = pc) => state' = state
  /\ (InNode /\ pc' \notin {pc, "aborted"})
       => /\ returned' = invoked'[Len(invoked')]
          /\ state' = Append(state, returned')
          /\ rstate' = <<>>
  /\ pc = "initial" => state' = state

\* C16: after respond returns, after one, two or three attempts, the
\* caller's history is what it was before the call; the failing responses
\* and corrective messages live only in respond's own list, and the one
\* output is the returned message.
C16_HistoryInMessageOut ==
  /\ [][C16_Step]_vars
  /\ [](InNode => /\ Len(rstate) = Len(state) + 2 * attempt
                  /\ SubSeq(rstate, 1, Len(state)) = state)

\* the draft returned on its third attempt and the history holds the seed
\* and the returned message only
C16_Witness ==
  /\ pc = "execute_tools"
  /\ Len(invoked) = 3
  /\ state = <<Seed(notnovelhyp), returned>>

\* the error a failing call raises at each position of the run
FaultAt(p) ==
  CASE p \in {"initial", "draft", "revise"} -> {"EndpointError"}
    [] p = "execute_tools" -> {"RetrieverError"}
    [] p = "search" -> {"RetrieverError"}
    [] p = "extract" -> {"LookupError"}
    [] p = "policy" -> {"PolicyError", "LookupError"}
    [] p = "relation" -> {"EndpointError"}
    [] OTHER -> {}

\* C17 as a step: an error is raised where a call is made and ends the run at
\* once, with no new invocation, attempt, row or cycle; another attempt is
\* made only after a response that failed validation.
C17_Step ==
  /\ error' # error
       => /\ error = "none"
          /\ error' \in FaultAt(pc)
          /\ pc' = "aborted"
          /\ attempt' = attempt
          /\ Len(invoked') <= Len(invoked)
          /\ state' = state
          /\ table' = table
          /\ notnovelhyp' = notnovelhyp
          /\ hypothesis_cycle' = hypothesis_cycle
  /\ attempt' = attempt + 1
       => /\ error' = "none"
          /\ Len(invoked') = Len(invoked) + 1
          /\ ~validator_invoke(Schema(responder), invoked'[Len(invoked')])

\* C17: only validation failures are retried; an endpoint error inside
\* respond, a retriever error of execute_tools, a policy-check error or a
\* relation-call error is followed by no further attempt: the error ends the
\* outer iteration, and nothing runs after it.
C17_NoRetryOnFault ==
  /\ [][C17_Step]_vars
  /\ [](error # "none" <=> pc = "aborted")
  /\ [](pc = "aborted" => ~ ENABLED Next)

\* the endpoint failed on the second attempt of a respond of the second cycle
C17_Witness ==
  /\ pc = "aborted"
  /\ error = "EndpointError"
  /\ attempt = 1
  /\ hypothesis_cycle = 1
  /\ Len(table) = 1

\* respond is running, and the list its caller passed
InRespond == pc \in {"initial", "draft", "revise"}
PassedHistory == IF pc = "initial" THEN <<HumanMessage(<<Prompt>>)>> ELSE state

\* C18: the list the model is invoked with on attempt k is the passed history
\* followed, in attempt order, by the pair (failing response, corrective
\* message) of each of the attempts 1..k-1; each corrective message has role
\* tool and carries the id of the first tool call of the response before it;
\* so its length is len(history) + 2(k-1).
C18_RetryHistory ==
  InRespond =>
    LET base == Len(PassedHistory)
    IN /\ Len(invoked) = attempt
       /\ Len(rstate) = base + 2 * attempt
       /\ SubSeq(rstate, 1, base) = PassedHistory
       /\ \A j \in 1..attempt :
            /\ rstate[base + 2 * j - 1] = invoked[j]
            /\ ~validator_invoke(Schema(responder), invoked[j])
            /\ rstate[base + 2 * j].type = "tool"
            /\ rstate[base + 2 * j].tool_call_id = invoked[j].tool_calls[1].id

\* the revisor is about to make its third attempt after two different
\* failing responses
C18_Witness ==
  /\ pc = "revise"
  /\ attempt = 2
  /\ Len(rstate) = Len(state) + 4
  /\ invoked[1] # invoked[2]
  /\ rstate[Len(state) + 3] = invoked[2]

\* the table and the accumulator are left as they are by a step
KeepsBoth == table' = table /\ notnovelhyp' = notnovelhyp

\* C19 as a step: the run starts when the pre-loop call returns and both are
\* set to empty; after that the table changes only by the append that ends
\* an outer iteration, the accumulator only by the concatenation that follows
\* the append, and every other step, a failing call included, keeps both.
C19_Step ==
  /\ pc = "initial"
       => \/ KeepsBoth
          \/ pc' = "loop" /\ table' = <<>> /\ notnovelhyp' = ""
  /\ (pc = "relation" /\ pc' = "accumulate")
       => /\ Len(table') = Len(table) + 1
          /\ SubSeq(table', 1, Len(table)) = table
          /\ notnovelhyp' = notnovelhyp
  /\ pc = "accumulate"
       => /\ table' = table
          /\ notnovelhyp' = notnovelhyp \o table[Len(table)][1][2]
  /\ (pc \notin {"initial", "relation", "accumulate"} \/ pc' = "aborted")
       => KeepsBoth

\* C19: within a run the accumulator is never reset and each value is a
\* prefix of the next; it and the table are unchanged during a cycle and the
\* annotation calls and change only at the end of a completed outer
\* iteration, the row first and the accumulator after it; so at the start of
\* every outer iteration the accumulator is the concatenation of the short
\* names of the table, and a faulting iteration leaves both as they were.
C19_AccumulatorTableConsistency ==
  /\ [][C19_Step]_vars
  /\ []((pc = "loop" \/ (pc = "draft" /\ attempt = 0))
          => /\ notnovelhyp = ShortNames(table)
             /\ Len(table) = hypothesis_cycle)

\* two iterations completed with different short names
C19_Witness ==
  /\ pc = "loop"
  /\ Len(table) = 2
  /\ table[1][1][2] # table[2][1][2]
  /\ notnovelhyp = table[1][1][2] \o table[2][1][2]

\* the graph has ended and the row of this iteration is being built
Annotating == pc \in {"extract", "search", "policy", "relation"}

\* the last message of the terminal history is what the last revise step
\* returned, in a history that began with this iteration's seed
LastIsRevision ==
  /\ Len(state) >= 3
  /\ state[1] = Seed(notnovelhyp)
  /\ state[Len(state)].type = "ai"
  /\ _get_num_iterations(state) > agent_iterations

\* C20: the short name, the answer and the reflection fields of the row of an
\* outer iteration are read from the first tool call of the last message of
\* that iteration's terminal history; that message is the response the last
\* revise step returned, not a draft, a tool message or a message of another
\* cycle.
C20_ResultIsLastMessage ==
  /\ [][Annotating => state' = state]_vars
  /\ [](Annotating => LastIsRevision)
  /\ [](pc = "extract" => /\ responder = "revisor"
                          /\ returned = state[Len(state)])
  /\ [](pc = "search"
          => shortname_hyp
               = state[Len(state)].tool_calls[1].args.reflection.shortname)
  /\ [](pc = "accumulate"
          => LET call == state[Len(state)].tool_calls[1]
                 row == table[Len(table)]
             IN /\ LastIsRevision
                /\ call.name = "ReviseAnswer"
                /\ row[1][2] = call.args.reflection.shortname
                /\ row[2][2] = call.args.answer
                /\ row[3][2] = call.args.reflection.noveltyscore
                /\ row[4][2] = call.args.reflection.notnovel
                /\ row[5][2] = call.args.reflection.missing
                /\ row[6][2] = call.args.reflection.superfluous
                /\ row[7][2] = call.args.reflection.flag
                /\ row[8][2] = call.args.reflection.references_field)

\* a row whose short name is the revision's and differs from the draft's
C20_Witness ==
  /\ pc = "accumulate"
  /\ state[2].tool_calls # <<>>
  /\ state[2].tool_calls[1].args.reflection.shortname \in Names
  /\ state[2].tool_calls[1].args.reflection.shortname # table[Len(table)][1][2]
  /\ table[Len(table)][1][2]
       = state[Len(state)].tool_calls[1].args.reflection.shortname

\* the graph of the running cycle is streaming, or has just ended
Streaming == pc \in {"draft", "execute_tools", "revise", "extract"}

\* every ai message of a history carries a tool call
AllCalls(st) ==
  \A i \in 1..Len(st) : st[i].type = "ai" => st[i].tool_calls # <<>>

\* C21: during a cycle every message that enters the history (the seed, the
\* draft, each tool message, each revision) is shown to the caller exactly
\* once and in history order, as it is produced: what was shown is the
\* history. (Stated for the histories whose ai messages all carry a tool
\* call; the claim covers the others as well.)
C21_StreamShowsHistory ==
  (Streaming /\ AllCalls(state)) => written = state

\* every ai message of a history carries exactly one tool call, so that every
\* execute_tools step added exactly one tool message
OneCall(st) ==
  \A i \in 1..Len(st) : st[i].type = "ai" => Len(st[i].tool_calls) = 1

\* the revise steps a history has completed
Revisions(st) == NumAI(st) - 1

\* C22: in a cycle entered with a single human seed in which every
\* execute_tools step added exactly one tool message, the trailing ai / tool
\* run after the k-th revise is 2k+1 long, whatever the number of validation
\* retries of any step (the history holds the seed and that run only); so a
\* cycle with agent_iterations = N ends after exactly ceil(N/2) revisions,
\* the same number for N = 2m-1 and N = 2m.
C22_ExactLoopDepth ==
  (pc \in {"execute_tools", "extract"} /\ OneCall(state)) =>
    /\ state[1].type = "human"
    /\ _get_num_iterations(state) = 2 * Revisions(state) + 1
    /\ Len(state) = 2 * Revisions(state) + 2
    /\ pc = "execute_tools" => 2 * Revisions(state) + 1 <= agent_iterations
    /\ pc = "extract" => Revisions(state) = (agent_iterations + 1) \div 2

\* a cycle with agent_iterations = 3 ended after two revisions, the last of
\* which took three attempts
C22_Witness ==
  /\ pc = "extract"
  /\ agent_iterations = 3
  /\ OneCall(state)
  /\ Revisions(state) = 2
  /\ Len(invoked) = 3

\* the call before the loop is running; the first cycle is being entered
PreLoop == pc = "initial"
FirstEntry == pc = "draft" /\ hypothesis_cycle = 0 /\ attempt = 0

\* C23 as a step: while the pre-loop call runs nothing but respond's own
\* record changes; when it returns, the table and the accumulator are set to
\* empty and the message goes to initial only; when it faults, the run ends
\* with no history, no cycle counted and the stored table as it was.
C23_Step ==
  /\ PreLoop
       => /\ state' = state
          /\ hypothesis_cycle' = hypothesis_cycle
          /\ rowVars' = rowVars
          /\ written' = written
          /\ Len(invoked') <= 3
  /\ (PreLoop /\ pc' = "initial") => (table' = table /\ notnovelhyp' = notnovelhyp)
  /\ (PreLoop /\ pc' = "loop")
       => /\ initial' = returned'
          /\ table' = <<>>
          /\ notnovelhyp' = ""
  /\ (PreLoop /\ pc' \notin {"initial", "loop"})
       => /\ pc' = "aborted"
          /\ error' = "EndpointError"
          /\ table' = table
          /\ initial' = NoMessage
  /\ ~PreLoop => pc' # "initial"

\* C23: one first_responder call, of at most 3 invocations, runs before the
\* first outer iteration and before the table is reset; the message it
\* returns enters no history, seed, row or accumulator: the first cycle is
\* entered in one and the same state whatever was returned, so the table
\* and the seeds do not depend on it; if the call faults, the run aborts
\* with no outer iteration started and the stored table as it was.
C23_PreLoopCall ==
  /\ [][C23_Step]_vars
  /\ [](PreLoop => /\ responder = "first_responder"
                   /\ state = <<>>
                   /\ hypothesis_cycle = 0
                   /\ table \in {<<>>, <<PrevRow>>}
                   /\ Len(invoked) = attempt)
  /\ [](FirstEntry => /\ state = <<Seed("")>>
                      /\ rstate = state
                      /\ written = state
                      /\ invoked = <<>>
                      /\ returned = NoMessage
                      /\ initial = NoMessage
                      /\ table = <<>>
                      /\ notnovelhyp = ""
                      /\ shortname_hyp = ""
                      /\ listofpapers = ""
                      /\ biohazard = ""
                      /\ relation_input = NoInput
                      /\ error = "none")

\* the pre-loop call returned on its third invocation, the stored table was
\* reset and no cycle has started
C23_Witness ==
  /\ pc = "loop"
  /\ hypothesis_cycle = 0
  /\ Len(invoked) = 3
  /\ initial = invoked[3]
  /\ table = <<>>
  /\ state = <<>>

====
